---- MODULE Spec2Model ----
(***************************************************************************)
(* Emailit: the API gateway (server/server.js) and the Log Viewer          *)
(* (src/pages/Analytics.tsx).                                              *)
(*                                                                         *)
(* Gateway: every HTTP request is a process that runs its handler up to    *)
(* the next await.  The awaited operations are fs.readFile, fs.writeFile   *)
(* and the axios call; each of them takes effect in one step, and steps    *)
(* of different requests interleave freely.                                *)
(***************************************************************************)
EXTENDS Integers, Sequences, FiniteSets, TLC

\* ------------------------------------------------------------------ bounds
MaxRequests == 3        \* requests issued in one behaviour of the CRUD models
MaxProxyRequests == 2   \* requests issued in one behaviour of the full gateway
MaxFaults == 1          \* storage operations that fail in one behaviour
MaxFetches == 2         \* fetchLogs calls in one behaviour of the Log Viewer
MaxPage == 1            \* largest totalPages the log endpoint answers with

\* ------------------------------------------------------------------ values
Undefined == "undefined"          \* a field the JSON body does not carry
NoFile == [exists |-> FALSE, data |-> <<>>]   \* the store file does not exist (ENOENT)
Ids == {"a1", "a2"}
Emails == {"x@e", "y@e"}
EmptyObject == [f \in {} |-> Undefined]

\* JavaScript truthiness of a string-or-undefined value (`!v`, `v || w`).
Falsy(v) == v \in {Undefined, ""}
OrElse(v, w) == IF Falsy(v) THEN w ELSE v

Get(obj, f) == IF f \in DOMAIN obj THEN obj[f] ELSE Undefined

Range(s) == {s[i] : i \in 1..Len(s)}

\* variant of the filter: keeps the accounts of the id instead of the others
RECURSIVE FilterKeepId(_, _)
FilterKeepId(arr, id) ==
  IF arr = <<>> THEN <<>>
  ELSE IF Get(Head(arr), "id") = id
       THEN <<Head(arr)>> \o FilterKeepId(Tail(arr), id)
       ELSE FilterKeepId(Tail(arr), id)

\* variant of the filter: removes the first account of the id only
RECURSIVE FilterOutFirst(_, _)
FilterOutFirst(arr, id) ==
  IF arr = <<>> THEN <<>>
  ELSE IF Get(Head(arr), "id") # id
       THEN <<Head(arr)>> \o FilterOutFirst(Tail(arr), id)
       ELSE Tail(arr)

\* accounts.filter(acc => acc.id !== id)
RECURSIVE FilterOutId(_, _)
FilterOutId(arr, id) ==
  IF arr = <<>> THEN <<>>
  ELSE IF Get(Head(arr), "id") # id
       THEN <<Head(arr)>> \o FilterOutId(Tail(arr), id)
       ELSE FilterOutId(Tail(arr), id)

\* arr.find(x => x[field] === value): the first match, or undefined
RECURSIVE FindBy(_, _, _)
FindBy(arr, field, value) ==
  IF arr = <<>> THEN Undefined
  ELSE IF Get(Head(arr), field) = value THEN Head(arr)
       ELSE FindBy(Tail(arr), field, value)

Has(arr, field, value) == \E i \in 1..Len(arr) : Get(arr[i], field) = value

\* variant of the merge: the account's own fields win over the body's
MergeAccountWins(acc, body) ==
  [f \in (DOMAIN acc) \cup (DOMAIN body) |->
     IF f \in DOMAIN acc THEN acc[f] ELSE body[f]]

\* { ...acc, ...body }
Merge(acc, body) ==
  [f \in (DOMAIN acc) \cup (DOMAIN body) |->
     IF f \in DOMAIN body THEN body[f] ELSE acc[f]]

\* accounts.map(acc => acc.id === id ? { ...acc, ...body } : acc)
MapMerge(arr, id, body) ==
  [i \in 1..Len(arr) |->
     IF Get(arr[i], "id") = id THEN Merge(arr[i], body) ELSE arr[i]]

\* `updated`: the merge of the last account the map matched, else null -> {}
Updated(arr, id, body) ==
  IF Has(arr, "id", id)
  THEN LET last == CHOOSE i \in 1..Len(arr) :
                     /\ Get(arr[i], "id") = id
                     /\ \A j \in (i+1)..Len(arr) : Get(arr[j], "id") # id
       IN Merge(arr[last], body)
  ELSE EmptyObject

\* a JSON value that is not a string, null or false: the number 123
ANumber == "<number 123>"
IsString(v) == v # ANumber

\* `from && from.trim() !== ''` throws when from is truthy and has no trim
\* method: "TypeError: from.trim is not a function"
TrimThrows(v) == ~Falsy(v) /\ ~IsString(v)

\* String.prototype.trim on the `from` values of the model
Trim(v) == CASE v = " " -> "" [] v = " f@e " -> "f@e" [] OTHER -> v

\* ------------------------------------------------------------------ state
VARIABLES
  accountsFile,     \* accounts.json: whether it exists, and the stored array
  subscribersFile,  \* subscribers.json: whether it exists, and the stored array
  req,              \* the requests: handler position, locals and response
  faults,           \* storage operations that have failed so far
  clobbered         \* history: POSTed accounts a stale write came after

serverVars == <<accountsFile, subscribersFile, req, faults, clobbered>>

\* the Log Viewer
VARIABLES
  currentAccount,   \* useAccounts().currentAccount: NoAccount or an account id
  statusFilter,     \* useState('all')
  logs,             \* useState([]): the page of logs on display
  pagination,       \* useState({ page: 1, limit: 100, total: 0, totalPages: 0 })
  isLoading,        \* useState(false)
  inflight,         \* the fetchLogs calls awaiting their response
  issued,           \* fetchLogs calls issued so far
  toasts,           \* toast.error("Failed to refresh logs") shown so far
  lastChange,       \* history: the last handlePageChange call and what it fetched
  lastDone          \* history: the last fetchLogs call to finish, and how;
                    \* allOk: every call that finished so far succeeded

viewerVars == <<currentAccount, statusFilter, logs, pagination, isLoading,
                inflight, issued, toasts, lastChange, lastDone>>

vars == <<accountsFile, subscribersFile, req, faults, clobbered,
          currentAccount, statusFilter, logs, pagination, isLoading,
          inflight, issued, toasts, lastChange, lastDone>>

AccountEps == {"GET /api/accounts", "POST /api/accounts",
               "PUT /api/accounts/:id", "DELETE /api/accounts/:id"}
SubscriberEps == {"POST /api/subscribers"}
ProviderEps == {"POST /api/check-status", "POST /api/send-email",
                "POST /api/track-event"}
AllEps == AccountEps \cup SubscriberEps \cup ProviderEps

\* the store an endpoint works on: subscribers.json, or else accounts.json
OnSubscribers(ep) == ep \in SubscriberEps

\* no error has reached the handler's catch block
NoError == [hasResponse |-> FALSE, status |-> 0, data |-> Undefined, message |-> ""]

IdleReq ==
  [ep |-> "none", pc |-> "idle", id |-> Undefined, body |-> EmptyObject,
   snap |-> <<>>, local |-> <<>>, status |-> 0, res |-> EmptyObject,
   io |-> 0, calls |-> 0, sent |-> EmptyObject, stale |-> FALSE,
   ioError |-> FALSE, got |-> NoError, owed |-> {}, quiet |-> {}]

\* ------------------------------------------------------------------ inputs
\* req.params.id and req.body of the requests the model issues
AccountBodies ==
  {[id |-> "a1", secretKey |-> "k1"], [id |-> "a1", secretKey |-> "k2"],
   [id |-> "a2", secretKey |-> "k1"]}
PutBodies == {[secretKey |-> "k2"], [id |-> "a2"]}
SubscriberBodies == {[email |-> e] : e \in Emails \cup {""}} \cup {EmptyObject}
CheckBodies == {[secretKey |-> "k1"], [secretKey |-> ""], EmptyObject}
SendFull ==
  {[accountId |-> i, to |-> "t@e", subject |-> "s", content |-> "c", from |-> f] :
     i \in Ids, f \in {" ", " f@e "}}
  \cup {[accountId |-> i, to |-> "t@e", subject |-> "s", content |-> "c"] : i \in Ids}
  \cup {[accountId |-> "a1", to |-> "t@e", subject |-> "s", content |-> "c",
         from |-> ANumber]}
SendBodies ==
  SendFull \cup {[to |-> "t@e", subject |-> "s", content |-> "c"],
                 [accountId |-> "a1", subject |-> "s", content |-> "c"],
                 [accountId |-> "a1", to |-> "t@e", content |-> ""],
                 [accountId |-> "a1", to |-> "t@e", subject |-> "s"]}
TrackFull ==
  {[accountId |-> i, event |-> "ev", email |-> "x@e"] : i \in Ids}
  \cup {[accountId |-> "a1", event |-> "ev", email |-> "x@e",
         subscribed |-> "false", data |-> "d"]}
TrackBodies ==
  TrackFull \cup {[event |-> "ev", email |-> "x@e"],
                  [accountId |-> "a1", email |-> "x@e"],
                  [accountId |-> "a1", event |-> "ev"]}

Inputs(ep) ==
  CASE ep = "GET /api/accounts" -> {[id |-> Undefined, body |-> EmptyObject]}
    [] ep = "POST /api/accounts" -> {[id |-> Undefined, body |-> b] : b \in AccountBodies}
    [] ep = "PUT /api/accounts/:id" -> {[id |-> "a1", body |-> b] : b \in PutBodies}
    [] ep = "DELETE /api/accounts/:id" -> {[id |-> i, body |-> EmptyObject] : i \in Ids}
    [] ep = "POST /api/subscribers" -> {[id |-> Undefined, body |-> b] : b \in SubscriberBodies}
    [] ep = "POST /api/check-status" -> {[id |-> Undefined, body |-> b] : b \in CheckBodies}
    [] ep = "POST /api/send-email" -> {[id |-> Undefined, body |-> b] : b \in SendBodies}
    [] ep = "POST /api/track-event" -> {[id |-> Undefined, body |-> b] : b \in TrackBodies}

\* ------------------------------------------------------------------ handlers
Respond(q, status, res) ==
  [q EXCEPT !.pc = "done", !.status = status, !.res = res,
            !.snap = <<>>, !.local = <<>>, !.stale = FALSE]

\* the errors a handler's catch block can receive
FsError == [hasResponse |-> FALSE, status |-> 0, data |-> Undefined,
            message |-> "EIO: i/o error"]
TypeError == [hasResponse |-> FALSE, status |-> 0, data |-> Undefined,
              message |-> "from.trim is not a function"]
ProviderErrors ==
  {[hasResponse |-> TRUE, status |-> 401, data |-> "unauthorized",
    message |-> "Request failed with status code 401"],
   [hasResponse |-> TRUE, status |-> 422, data |-> "",
    message |-> "Request failed with status code 422"],
   [hasResponse |-> FALSE, status |-> 0, data |-> Undefined,
    message |-> "Network Error"]}

\* variant of the relay: the provider's status is dropped
RelayStatusAlways500(error) == 500

\* error.response?.status || 500 and error.response?.data || error.message
RelayStatus(error) ==
  IF error.hasResponse /\ error.status # 0 THEN error.status ELSE 500
RelayDetails(error) ==
  IF error.hasResponse THEN OrElse(error.data, error.message) ELSE error.message

\* variant of the checks: send-email does not look at content
ValidWithoutContent(ep, body) ==
  CASE ep = "POST /api/check-status" -> ~Falsy(Get(body, "secretKey"))
    [] ep = "POST /api/subscribers" -> ~Falsy(Get(body, "email"))
    [] ep = "POST /api/send-email" ->
         ~(\/ Falsy(Get(body, "accountId")) \/ Falsy(Get(body, "to"))
           \/ Falsy(Get(body, "subject")))
    [] ep = "POST /api/track-event" ->
         ~(\/ Falsy(Get(body, "accountId")) \/ Falsy(Get(body, "event"))
           \/ Falsy(Get(body, "email")))
    [] OTHER -> TRUE

\* the missing-field checks that open the handlers
Valid(ep, body) ==
  CASE ep = "POST /api/check-status" -> ~Falsy(Get(body, "secretKey"))
    [] ep = "POST /api/subscribers" -> ~Falsy(Get(body, "email"))
    [] ep = "POST /api/send-email" ->
         ~(\/ Falsy(Get(body, "accountId")) \/ Falsy(Get(body, "to"))
           \/ Falsy(Get(body, "subject")) \/ Falsy(Get(body, "content")))
    [] ep = "POST /api/track-event" ->
         ~(\/ Falsy(Get(body, "accountId")) \/ Falsy(Get(body, "event"))
           \/ Falsy(Get(body, "email")))
    [] OTHER -> TRUE

BadRequest(ep) ==
  CASE ep = "POST /api/check-status" -> [message |-> "Missing Secret Key"]
    [] ep = "POST /api/subscribers" -> [error |-> "Email required"]
    [] ep = "POST /api/send-email" -> [error |-> "Missing parameters"]
    [] OTHER -> [error |-> "Missing parameters (accountId, event, email)"]

\* the catch block of each handler
Catch(q, error) ==
  CASE q.ep \in AccountEps \cup SubscriberEps ->
         Respond(q, 500, [error |-> "DB Error"])
    [] q.ep = "POST /api/check-status" ->
         Respond(q, 401, [success |-> "false", message |-> "Authentication Failed",
                          details |-> "Invalid Plunk Secret Key"])
    [] q.ep = "POST /api/send-email" ->
         Respond(q, RelayStatus(error),
                 [error |-> "Failed to send email", details |-> RelayDetails(error)])
    [] q.ep = "POST /api/track-event" ->
         Respond(q, RelayStatus(error),
                 [error |-> "Failed to track event", details |-> RelayDetails(error)])

\* the payload send-email posts to the provider
SendPayload(body) ==
  LET base == [to |-> body.to, subject |-> body.subject, body |-> body.content,
               subscribed |-> "true"]
      from == Get(body, "from")
  IN IF ~Falsy(from) /\ Trim(from) # ""
     THEN Merge(base, [from |-> Trim(from)])
     ELSE base

\* the payload track-event posts to the provider
TrackPayload(body) ==
  [event |-> body.event, email |-> body.email,
   subscribed |-> IF Get(body, "subscribed") # Undefined
                  THEN Get(body, "subscribed") ELSE "true",
   data |-> OrElse(Get(body, "data"), "{}")]

\* axios.get / axios.post: the request leaves, the handler awaits the reply
Call(q, url, token, payload) ==
  [q EXCEPT !.pc = "calling", !.calls = @ + 1,
            !.sent = [url |-> url, token |-> token, payload |-> payload]]

\* variants of the duplicate check: none, and one that looks at the last
\* subscriber only
NeverSubscribed(data, email) == FALSE
SubscribedLast(data, email) == data # <<>> /\ data[Len(data)].email = email

\* subscribers.find(s => s.email === email), as a condition
AlreadySubscribed(data, email) == Has(data, "email", email)

\* the handler from the return of readJsonFile to its next await or response;
\* n is the request's number, used as the fresh crypto.randomUUID()
OnData(n, q, data) ==
  CASE q.ep = "GET /api/accounts" -> Respond(q, 200, data)
    [] q.ep = "POST /api/accounts" ->
         [q EXCEPT !.pc = "writing", !.snap = data, !.local = Append(data, q.body)]
    [] q.ep = "PUT /api/accounts/:id" ->
         [q EXCEPT !.pc = "writing", !.snap = data,
                   !.local = MapMerge(data, q.id, q.body)]
    [] q.ep = "DELETE /api/accounts/:id" ->
         [q EXCEPT !.pc = "writing", !.snap = data, !.local = FilterOutId(data, q.id)]
    [] q.ep = "POST /api/subscribers" ->
         IF AlreadySubscribed(data, q.body.email)
         THEN Respond([q EXCEPT !.snap = data], 409, [message |-> "Already subscribed"])
         ELSE [q EXCEPT !.pc = "writing", !.snap = data,
                        !.local = Append(data, [id |-> n, email |-> q.body.email,
                                                joinedAt |-> n])]
    [] q.ep = "POST /api/send-email" ->
         IF ~Has(data, "id", q.body.accountId)
         THEN Respond([q EXCEPT !.snap = data], 404, [error |-> "Account not found"])
         ELSE IF TrimThrows(Get(q.body, "from"))
         THEN Catch([q EXCEPT !.snap = data, !.got = TypeError], TypeError)
         ELSE Call([q EXCEPT !.snap = data], "/v1/send",
                   Get(FindBy(data, "id", q.body.accountId), "secretKey"),
                   SendPayload(q.body))
    [] q.ep = "POST /api/track-event" ->
         IF ~Has(data, "id", q.body.accountId)
         THEN Respond([q EXCEPT !.snap = data], 404, [error |-> "Account not found"])
         ELSE Call([q EXCEPT !.snap = data], "/v1/track",
                   Get(FindBy(data, "id", q.body.accountId), "secretKey"),
                   TrackPayload(q.body))

\* the handler from the return of writeJsonFile to its response
OnWritten(q) ==
  CASE q.ep = "POST /api/accounts" -> Respond(q, 201, q.body)
    [] q.ep = "PUT /api/accounts/:id" -> Respond(q, 200, Updated(q.snap, q.id, q.body))
    [] q.ep = "DELETE /api/accounts/:id" -> Respond(q, 204, EmptyObject)
    [] q.ep = "POST /api/subscribers" ->
         Respond(q, 200, [success |-> "true", subscriber |-> q.local[Len(q.local)]])

\* variant of the write: the array is appended to the file (fs.appendFile)
AppendJsonFile(current, data) == [exists |-> TRUE, data |-> current.data \o data]

\* fs.writeFile(filePath, JSON.stringify(data)): the whole file is replaced.
\* JSON.stringify followed by JSON.parse gives back the arrays of strings and
\* plain objects the model stores, so the file is kept as the array itself.
WriteJsonFile(current, data) == [exists |-> TRUE, data |-> data]

\* ------------------------------------------------------------------ steps
FileOf(ep) == IF OnSubscribers(ep) THEN subscribersFile ELSE accountsFile

SetFile(ep, content) ==
  IF OnSubscribers(ep)
  THEN subscribersFile' = content /\ UNCHANGED accountsFile
  ELSE accountsFile' = content /\ UNCHANGED subscribersFile

SameFile(ep1, ep2) == OnSubscribers(ep1) = OnSubscribers(ep2)

\* history: the POST /api/accounts requests answered 201 so far
Created == {r \in DOMAIN req : req[r].ep = "POST /api/accounts" /\ req[r].status = 201}
\* history: the ids a DELETE, or a PUT, has been issued for
DeleteIssued == {req[r].id : r \in {x \in DOMAIN req : req[x].ep = "DELETE /api/accounts/:id"}}
PutIssued == {req[r].id : r \in {x \in DOMAIN req : req[x].ep = "PUT /api/accounts/:id"}}

\* history kept in a GET: the accounts created before it was issued that no
\* DELETE or PUT was issued for (owed), and those of them no stale write
\* came after (quiet)
Owing(q) ==
  IF q.ep = "GET /api/accounts"
  THEN LET owed == {r \in Created :
                      LET id == Get(req[r].body, "id")
                      IN id \notin DeleteIssued \cup PutIssued}
       IN [q EXCEPT !.owed = owed, !.quiet = owed \ clobbered]
  ELSE q

\* a write to the file of endpoint ep makes the pending writes of the other
\* requests on that file stale: what they read is no longer what is stored
AfterWrite(r, q) ==
  [x \in DOMAIN req |->
     IF x = r THEN q
     ELSE IF req[x].pc \in {"recovering", "writing"} /\ SameFile(req[x].ep, req[r].ep)
          THEN [req[x] EXCEPT !.stale = TRUE]
          ELSE req[x]]

Clobber(r) == IF req[r].stale THEN clobbered \cup Created ELSE clobbered

\* readJsonFile, first await: fs.readFile succeeds, fails with ENOENT (the
\* file is then created, a second await) or fails with another error
ReadJsonFile(r, q0, maxFaults) ==
  LET q == [q0 EXCEPT !.io = @ + 1] IN
  \/ /\ FileOf(q.ep).exists
     /\ req' = [req EXCEPT ![r] = OnData(r, q, FileOf(q.ep).data)]
     /\ UNCHANGED <<accountsFile, subscribersFile, faults, clobbered>>
  \/ /\ ~FileOf(q.ep).exists
     /\ req' = [req EXCEPT ![r] = [q EXCEPT !.pc = "recovering"]]
     /\ UNCHANGED <<accountsFile, subscribersFile, faults, clobbered>>
  \/ /\ faults < maxFaults
     /\ faults' = faults + 1
     /\ req' = [req EXCEPT ![r] = Catch([q EXCEPT !.ioError = TRUE, !.got = FsError], FsError)]
     /\ UNCHANGED <<accountsFile, subscribersFile, clobbered>>

\* a request arrives and its handler runs to its first await or response
Start(r, eps, maxFaults) ==
  /\ req[r].pc = "idle"
  /\ \A x \in DOMAIN req : x < r => req[x].pc # "idle"
  /\ \E ep \in eps : \E in \in Inputs(ep) :
       LET q == Owing([IdleReq EXCEPT !.ep = ep, !.id = in.id, !.body = in.body]) IN
       IF ~Valid(ep, in.body)
       THEN /\ req' = [req EXCEPT ![r] = Respond(q, 400, BadRequest(ep))]
            /\ UNCHANGED <<accountsFile, subscribersFile, faults, clobbered>>
       ELSE IF ep = "POST /api/check-status"
       THEN /\ req' = [req EXCEPT ![r] =
                         Call(q, "/v1/contacts?limit=1", in.body.secretKey, EmptyObject)]
            /\ UNCHANGED <<accountsFile, subscribersFile, faults, clobbered>>
       ELSE ReadJsonFile(r, q, maxFaults)
  /\ UNCHANGED viewerVars

\* readJsonFile, ENOENT branch: fs.writeFile(filePath, '[]') and return []
Recover(r, maxFaults) ==
  /\ req[r].pc = "recovering"
  /\ LET q == [req[r] EXCEPT !.io = @ + 1] IN
     \/ /\ SetFile(q.ep, WriteJsonFile(FileOf(q.ep), <<>>))
        /\ req' = AfterWrite(r, OnData(r, [q EXCEPT !.stale = FALSE], <<>>))
        /\ clobbered' = Clobber(r)
        /\ UNCHANGED faults
     \/ /\ faults < maxFaults
        /\ faults' = faults + 1
        /\ req' = [req EXCEPT ![r] = Catch([q EXCEPT !.ioError = TRUE, !.got = FsError], FsError)]
        /\ UNCHANGED <<accountsFile, subscribersFile, clobbered>>
  /\ UNCHANGED viewerVars

\* await writeJsonFile(filePath, array) and the response that follows it
Write(r, maxFaults) ==
  /\ req[r].pc = "writing"
  /\ LET q == [req[r] EXCEPT !.io = @ + 1] IN
     \/ /\ SetFile(q.ep, WriteJsonFile(FileOf(q.ep), q.local))
        /\ req' = AfterWrite(r, OnWritten(q))
        /\ clobbered' = Clobber(r)
        /\ UNCHANGED faults
     \/ /\ faults < maxFaults
        /\ faults' = faults + 1
        /\ req' = [req EXCEPT ![r] = Catch([q EXCEPT !.ioError = TRUE, !.got = FsError], FsError)]
        /\ UNCHANGED <<accountsFile, subscribersFile, clobbered>>
  /\ UNCHANGED viewerVars

\* the provider's reply reaches the handler: a 2xx response, or an error
Reply(r) ==
  /\ req[r].pc = "calling"
  /\ \/ req' = [req EXCEPT ![r] =
                  IF req[r].ep = "POST /api/check-status"
                  THEN Respond(req[r], 200, [success |-> "true",
                                             message |-> "Connected to Plunk.",
                                             data |-> "provider-data"])
                  ELSE Respond(req[r], 200, "provider-data")]
     \/ \E error \in ProviderErrors :
          req' = [req EXCEPT ![r] = Catch([req[r] EXCEPT !.got = error], error)]
  /\ UNCHANGED <<accountsFile, subscribersFile, faults, clobbered>>
  /\ UNCHANGED viewerVars

\* ================================================================ Log Viewer
NoAccount == "null"
ViewerAccounts == {"a1", "a2"}
StatusFilters == {"all", "failed"}
DefaultLimit == 100
\* the logs are kept as the query they answer; [] before the first answer
NoLogs == [accountId |-> NoAccount, status |-> "all", page |-> 0]

\* what awaits fetchLogs after `await fetch(...)`: a parsed body with
\* response.ok and success, one with response.ok and no success, or a failure
\* of fetch(), of response.ok or of response.json()
Outcomes == {"success", "unsuccessful", "network error", "not ok", "unparsable"}
Failed(outcome) == outcome \in {"network error", "not ok", "unparsable"}
\* result.pagination is whatever the log endpoint sends
ServerPaginations ==
  {[page |-> p, limit |-> DefaultLimit, totalPages |-> t] :
     p \in (0 - 1)..(MaxPage + 2), t \in 0..MaxPage}

\* fetchLogs(page) up to `await fetch(...)`, called from a render whose
\* currentAccount and statusFilter are account and filter
FetchLogs(account, filter, page) ==
  IF account = NoAccount
  THEN UNCHANGED <<isLoading, inflight, issued>>
  ELSE /\ isLoading' = TRUE
       /\ issued' = issued + 1
       /\ inflight' = inflight \cup
            {[n |-> issued + 1, accountId |-> account, page |-> page,
              limit |-> pagination.limit, status |-> filter]}

\* the account context changes; the effect on [currentAccount, statusFilter]
\* calls fetchLogs(1) if there is an account
SelectAccount(a) ==
  /\ a # currentAccount
  /\ issued < MaxFetches
  /\ currentAccount' = a
  /\ FetchLogs(a, statusFilter, 1)
  /\ UNCHANGED <<statusFilter, logs, pagination, toasts, lastChange, lastDone>>
  /\ UNCHANGED serverVars

\* Select onValueChange={setStatusFilter}, then the same effect
SetStatusFilter(f) ==
  /\ currentAccount # NoAccount
  /\ f # statusFilter
  /\ issued < MaxFetches
  /\ statusFilter' = f
  /\ FetchLogs(currentAccount, f, 1)
  /\ UNCHANGED <<currentAccount, logs, pagination, toasts, lastChange, lastDone>>
  /\ UNCHANGED serverVars

\* the Refresh button: fetchLogs(pagination.page), disabled while loading
Refresh ==
  /\ currentAccount # NoAccount
  /\ ~isLoading
  /\ issued < MaxFetches
  /\ FetchLogs(currentAccount, statusFilter, pagination.page)
  /\ UNCHANGED <<currentAccount, statusFilter, logs, pagination, toasts,
                 lastChange, lastDone>>
  /\ UNCHANGED serverVars

\* variant of handlePageChange: the lower bound is 0
HandlePageChangeFromZero(newPage) ==
  /\ IF newPage >= 0 /\ newPage <= pagination.totalPages
     THEN FetchLogs(currentAccount, statusFilter, newPage)
     ELSE UNCHANGED <<isLoading, inflight, issued>>
  /\ lastChange' = [called |-> TRUE, newPage |-> newPage,
                    totalPages |-> pagination.totalPages,
                    fetched |-> {f.page : f \in inflight' \ inflight}]
  /\ UNCHANGED <<currentAccount, statusFilter, logs, pagination, toasts, lastDone>>
  /\ UNCHANGED serverVars

\* handlePageChange(newPage)
HandlePageChange(newPage) ==
  /\ IF newPage >= 1 /\ newPage <= pagination.totalPages
     THEN FetchLogs(currentAccount, statusFilter, newPage)
     ELSE UNCHANGED <<isLoading, inflight, issued>>
  /\ lastChange' = [called |-> TRUE, newPage |-> newPage,
                    totalPages |-> pagination.totalPages,
                    fetched |-> {f.page : f \in inflight' \ inflight}]
  /\ UNCHANGED <<currentAccount, statusFilter, logs, pagination, toasts, lastDone>>
  /\ UNCHANGED serverVars

\* the Previous button, disabled on page <= 1 and while loading
Previous ==
  /\ currentAccount # NoAccount
  /\ ~(pagination.page <= 1 \/ isLoading)
  /\ issued < MaxFetches
  /\ HandlePageChange(pagination.page - 1)

\* the Next button, disabled on page >= totalPages and while loading
NextPage ==
  /\ currentAccount # NoAccount
  /\ ~(pagination.page >= pagination.totalPages \/ isLoading)
  /\ issued < MaxFetches
  /\ HandlePageChange(pagination.page + 1)

\* variant of fetchLogs: setIsLoading(false) at the end of the try block
SettleWithoutFinally(f, outcome, pg) ==
  /\ f \in inflight
  /\ inflight' = inflight \ {f}
  /\ IF outcome = "success"
     THEN /\ logs' = [accountId |-> f.accountId, status |-> f.status, page |-> f.page]
          /\ pagination' = pg
     ELSE UNCHANGED <<logs, pagination>>
  /\ toasts' = IF Failed(outcome) THEN toasts + 1 ELSE toasts
  /\ isLoading' = IF Failed(outcome) THEN isLoading ELSE FALSE
  /\ lastDone' = [n |-> f.n, outcome |-> outcome,
                  allOk |-> lastDone.allOk /\ outcome = "success"]
  /\ UNCHANGED <<currentAccount, statusFilter, issued, lastChange>>
  /\ UNCHANGED serverVars

\* fetchLogs from the return of fetch() to the end of its finally block
Settle(f, outcome, pg) ==
  /\ f \in inflight
  /\ inflight' = inflight \ {f}
  /\ IF outcome = "success"
     THEN /\ logs' = [accountId |-> f.accountId, status |-> f.status, page |-> f.page]
          /\ pagination' = pg
     ELSE UNCHANGED <<logs, pagination>>
  /\ toasts' = IF Failed(outcome) THEN toasts + 1 ELSE toasts
  /\ isLoading' = FALSE
  /\ lastDone' = [n |-> f.n, outcome |-> outcome,
                  allOk |-> lastDone.allOk /\ outcome = "success"]
  /\ UNCHANGED <<currentAccount, statusFilter, issued, lastChange>>
  /\ UNCHANGED serverVars

\* ================================================================ specifications
InitGateway(n) ==
  /\ accountsFile = NoFile
  /\ subscribersFile = NoFile
  /\ req = [r \in 1..n |-> IdleReq]
  /\ faults = 0
  /\ clobbered = {}

InitViewer ==
  /\ currentAccount = NoAccount
  /\ statusFilter = "all"
  /\ logs = NoLogs
  /\ pagination = [page |-> 1, limit |-> DefaultLimit, totalPages |-> 0]
  /\ isLoading = FALSE
  /\ inflight = {}
  /\ issued = 0
  /\ toasts = 0
  /\ lastChange = [called |-> FALSE, newPage |-> 1, totalPages |-> 0, fetched |-> {}]
  /\ lastDone = [n |-> 0, outcome |-> "none", allOk |-> TRUE]

\* the whole gateway
Init == InitGateway(MaxProxyRequests) /\ InitViewer
Next ==
  \/ \E r \in DOMAIN req : Start(r, AllEps, MaxFaults)
  \/ \E r \in DOMAIN req : Recover(r, MaxFaults)
  \/ \E r \in DOMAIN req : Write(r, MaxFaults)
  \/ \E r \in DOMAIN req : Reply(r)
Spec == Init /\ [][Next]_vars

\* the subscriber endpoint alone
InitSubscribers == InitGateway(MaxRequests) /\ InitViewer
NextSubscribers ==
  \/ \E r \in DOMAIN req : Start(r, SubscriberEps, MaxFaults)
  \/ \E r \in DOMAIN req : Recover(r, MaxFaults)
  \/ \E r \in DOMAIN req : Write(r, MaxFaults)
SpecSubscribers == InitSubscribers /\ [][NextSubscribers]_vars

\* the account endpoints alone, on a store that does not fail
InitAccounts == InitGateway(MaxRequests) /\ InitViewer
NextAccounts ==
  \/ \E r \in DOMAIN req : Start(r, AccountEps, 0)
  \/ \E r \in DOMAIN req : Recover(r, 0)
  \/ \E r \in DOMAIN req : Write(r, 0)
SpecAccounts == InitAccounts /\ [][NextAccounts]_vars

\* the Log Viewer
InitLogViewer == InitGateway(MaxProxyRequests) /\ InitViewer
NextViewer ==
  \/ \E a \in ViewerAccounts \cup {NoAccount} : SelectAccount(a)
  \/ \E f \in StatusFilters : SetStatusFilter(f)
  \/ Refresh
  \/ Previous
  \/ NextPage
  \/ \E f \in inflight, pg \in ServerPaginations : Settle(f, "success", pg)
  \/ \E f \in inflight, o \in Outcomes \ {"success"} : Settle(f, o, pagination)
SpecViewer == InitLogViewer /\ [][NextViewer]_vars

\* ================================================================ claims
Subscribers == subscribersFile.data
Accounts == accountsFile.data
Done(r) == req[r].pc = "done"

\* C1: no two stored subscribers have the same email, in every reachable
\* state, whatever the interleaving of the reads and writes of the requests.
C1_UniqueEmails ==
  \A i, j \in 1..Len(Subscribers) :
    i # j => Subscribers[i].email # Subscribers[j].email

\* C1's case: two subscribers are stored, and the subscriber of a request
\* answered 200 is not among them (another request wrote over it).
C1_Witness ==
  /\ Len(Subscribers) >= 2
  /\ \E r \in DOMAIN req :
       /\ req[r].ep = "POST /api/subscribers" /\ req[r].status = 200
       /\ req[r].res.subscriber \notin Range(Subscribers)

\* C2: a POST /api/subscribers whose email is in the array it reads is
\* answered 409 in that step, which leaves the stored array as it is and is
\* the request's only storage operation.
C2_DuplicateIs409 ==
  [][\A r \in DOMAIN req :
       ( /\ req[r].pc = "idle"
         /\ req'[r].ep = "POST /api/subscribers"
         /\ ~req'[r].ioError
         /\ subscribersFile.exists
         /\ \E i \in 1..Len(Subscribers) :
              Subscribers[i].email = Get(req'[r].body, "email") )
       => ( /\ req'[r].pc = "done"
            /\ req'[r].status = 409
            /\ req'[r].io = 1
            /\ subscribersFile' = subscribersFile )]_vars

\* C2's case: a request was answered 409 while a subscriber is stored.
C2_Witness ==
  /\ Len(Subscribers) >= 1
  /\ \E r \in DOMAIN req : req[r].status = 409

\* the accounts answered 201 that a GET owes: contained in its answer
Listed(g, owed) == \A r \in owed : req[r].body \in Range(req[g].res)
AnsweredGets == {g \in DOMAIN req : req[g].ep = "GET /api/accounts" /\ req[g].status = 200}

\* C3: once POST /api/accounts has answered 201 for an account, every GET
\* issued later and answered 200 lists it, unless a DELETE for its id was
\* issued, whatever requests were in progress while it was created.  (An
\* account a PUT was issued for is left out: the PUT may have changed it.)
C3_CreatedIsListed == \A g \in AnsweredGets : Listed(g, req[g].owed)

\* C3, amended: the same, for the accounts no stale write came after: no
\* request wrote the file (its array, or the [] that recreates a missing
\* file) after the 201 from a read that another write had overtaken.
C3_CreatedIsListedUnlessOverwritten == \A g \in AnsweredGets : Listed(g, req[g].quiet)

\* C3's case: a GET answered 200 owed an account, while another account had
\* been overwritten.
C3_Witness ==
  \E g \in AnsweredGets : req[g].quiet # {} /\ clobbered # {}

\* C4: a write leaves the file holding exactly the array of the request that
\* wrote, whatever was stored since that request read: the last writer wins.
C4_LastWriterWins ==
  [][\A r \in DOMAIN req :
       (req[r].pc = "writing" /\ req'[r].pc = "done" /\ req[r].ep \in AccountEps)
       => accountsFile'.data = req[r].local]_vars

\* C4's case: two POST /api/accounts were both answered 201, nothing was
\* deleted or updated, and the stored array holds the account of one only.
C4_LostUpdate ==
  /\ DeleteIssued = {} /\ PutIssued = {}
  /\ \E r1, r2 \in Created :
       /\ req[r1].body \notin Range(Accounts)
       /\ Accounts = <<req[r2].body>>

\* C5: the array a DELETE /api/accounts/:id stores is the array it read
\* without the accounts of that id, the others in their order (the array
\* itself when none matches), it answers 204, and when no other request
\* wrote since it read, that is the stored array before the request.
C5_DeleteRemovesOnlyThatId ==
  [][\A r \in DOMAIN req :
       (req[r].pc = "writing" /\ req'[r].pc = "done"
        /\ req[r].ep = "DELETE /api/accounts/:id")
       => LET others(arr) == SelectSeq(arr, LAMBDA a : Get(a, "id") # req[r].id)
          IN /\ req'[r].status = 204
             /\ Accounts' = others(req[r].snap)
             /\ ~Has(req[r].snap, "id", req[r].id) => Accounts' = req[r].snap
             /\ ~req[r].stale => Accounts' = others(Accounts)
             /\ (~req[r].stale /\ ~Has(Accounts, "id", req[r].id))
                  => accountsFile' = accountsFile]_vars

\* C5's case: a DELETE answered 204 took the accounts of its id out of a
\* stored array and left another account, and a DELETE answered 204 for an id
\* that is not stored.
C5_Witness ==
  \E r1, r2 \in DOMAIN req :
    /\ r1 # r2
    /\ req[r1].ep = "DELETE /api/accounts/:id" /\ req[r1].status = 204
    /\ req[r2].ep = "DELETE /api/accounts/:id" /\ req[r2].status = 204
    /\ \E c \in Created : Get(req[c].body, "id") = req[r1].id
    /\ ~(\E c \in Created : Get(req[c].body, "id") = req[r2].id)
    /\ Len(Accounts) >= 1

\* the fields the claim names as required, per endpoint
Required(ep) ==
  CASE ep = "POST /api/check-status" -> {"secretKey"}
    [] ep = "POST /api/subscribers" -> {"email"}
    [] ep = "POST /api/send-email" -> {"accountId", "to", "subject", "content"}
    [] ep = "POST /api/track-event" -> {"accountId", "event", "email"}
    [] OTHER -> {}
Started == {r \in DOMAIN req : req[r].pc # "idle"}
ProviderFailed(r) == req[r].calls > 0 /\ Done(r) /\ req[r].got # NoError

\* C6 as stated: on each of the three proxy endpoints a provider failure that
\* carries an HTTP response is answered with the provider's status and error
\* body, and one that carries none is answered 500.
C6_ProviderFailureRelayed ==
  \A r \in DOMAIN req :
    (req[r].ep \in ProviderEps /\ ProviderFailed(r))
    => IF req[r].got.hasResponse
       THEN /\ req[r].status = req[r].got.status
            /\ \E f \in DOMAIN req[r].res : req[r].res[f] = req[r].got.data
       ELSE req[r].status = 500

\* C6, amended: that holds of send-email and track-event, whose answer carries
\* the provider's error body under `details` when that body is not empty and
\* the error's message otherwise; check-status answers every provider failure
\* 401 with a fixed body.
C6_ProviderFailureRelayedBySendAndTrack ==
  \A r \in DOMAIN req :
    (req[r].ep \in ProviderEps /\ ProviderFailed(r))
    => IF req[r].ep = "POST /api/check-status"
       THEN /\ req[r].status = 401
            /\ req[r].res = [success |-> "false", message |-> "Authentication Failed",
                             details |-> "Invalid Plunk Secret Key"]
       ELSE IF req[r].got.hasResponse
       THEN /\ req[r].status = req[r].got.status
            /\ req[r].res.details =
                 IF req[r].got.data = "" THEN req[r].got.message ELSE req[r].got.data
       ELSE /\ req[r].status = 500
            /\ req[r].res.details = req[r].got.message

\* C6's case: send-email has relayed a provider failure with its status and
\* its error body.
C6_Witness ==
  \E r \in DOMAIN req :
    /\ req[r].ep = "POST /api/send-email" /\ ProviderFailed(r)
    /\ req[r].got.hasResponse /\ req[r].got.data # ""
    /\ req[r].status = req[r].got.status

\* C7: a request that lacks a required field is answered 400 by its first
\* step, having read no file, written no file and called no provider.
C7_MissingFieldIs400 ==
  \A r \in Started :
    (\E f \in Required(req[r].ep) : f \notin DOMAIN req[r].body)
    => /\ Done(r) /\ req[r].status = 400
       /\ req[r].io = 0 /\ req[r].calls = 0

\* C7's case: a send-email request without content was answered 400 while an
\* account was stored.
C7_Witness ==
  /\ Len(Accounts) >= 1
  /\ \E r \in DOMAIN req :
       /\ req[r].ep = "POST /api/send-email" /\ req[r].status = 400
       /\ "content" \notin DOMAIN req[r].body

\* C8: a request whose store read or write failed with an error other than
\* file-not-found is answered 500 with a message that does not carry the
\* error's text, and has called no provider.
C8_StorageFailureIsGeneric500 ==
  \A r \in DOMAIN req :
    req[r].ioError
    => /\ Done(r) /\ req[r].status = 500
       /\ \A f \in DOMAIN req[r].res : req[r].res[f] # FsError.message
       /\ req[r].calls = 0

InRange(page, totalPages) == page >= 1 /\ page <= totalPages

\* C9 as stated: handlePageChange fetches the page it is given clamped to
\* 1..totalPages: page 1 for a page below 1, totalPages for one above.
C9_PageChangeClamped ==
  lastChange.called
  => lastChange.fetched =
       {IF lastChange.newPage < 1 THEN 1
        ELSE IF lastChange.newPage > lastChange.totalPages THEN lastChange.totalPages
        ELSE lastChange.newPage}

\* C9, amended: handlePageChange fetches the page it is given when that page
\* is in 1..totalPages and fetches nothing otherwise, so no fetch it issues
\* asks for a page outside that range.
C9_PageChangeInRangeOrIgnored ==
  lastChange.called
  => lastChange.fetched =
       IF InRange(lastChange.newPage, lastChange.totalPages)
       THEN {lastChange.newPage} ELSE {}

\* C9's case: a page change to a page outside 1..totalPages, with pages to
\* clamp to, fetched nothing.
C9_Witness ==
  /\ lastChange.called
  /\ lastChange.totalPages >= 1
  /\ ~InRange(lastChange.newPage, lastChange.totalPages)
  /\ lastChange.fetched = {}

\* C10: the step that ends a fetchLogs call leaves isLoading false, and when
\* the call failed it shows one toast and leaves logs and pagination as they
\* were.
C10_FailedFetchKeepsData ==
  [][lastDone' # lastDone
     => /\ isLoading' = FALSE
        /\ Failed(lastDone'.outcome)
             => /\ toasts' = toasts + 1
                /\ logs' = logs
                /\ pagination' = pagination]_vars

\* C10's case: a fetch has failed after an earlier one had loaded a page, and
\* that page is still on display.
C10_Witness ==
  /\ Failed(lastDone.outcome)
  /\ toasts >= 1
  /\ logs # NoLogs
  /\ ~isLoading

\* old overlaid with body: the body's fields with the body's values, the
\* other fields of old with old's values, and no further field
Overlaid(merged, old, body) ==
  /\ DOMAIN merged = (DOMAIN old) \cup (DOMAIN body)
  /\ \A f \in DOMAIN body : merged[f] = body[f]
  /\ \A f \in (DOMAIN old) \ (DOMAIN body) : merged[f] = old[f]

\* the array arr with every account of the id overlaid with body, the others
\* and the order as they are
MergedInto(result, arr, id, body) ==
  /\ Len(result) = Len(arr)
  /\ \A i \in 1..Len(arr) :
       IF Get(arr[i], "id") = id
       THEN Overlaid(result[i], arr[i], body)
       ELSE result[i] = arr[i]

\* C11: the array a PUT /api/accounts/:id stores is the array it read with
\* every account of that id overlaid with the request body (the body's fields
\* win, the others are kept), the other accounts and the order as they were;
\* it answers 200 with a merged account (the last one in the array), or with
\* an empty object when no account matched, in which case the array it stores
\* is the array it read; and when no other request wrote since it read, that
\* array is the stored array before the write.
C11_PutIsShallowMerge ==
  [][\A r \in DOMAIN req :
       (req[r].pc = "writing" /\ req'[r].pc = "done"
        /\ req[r].ep = "PUT /api/accounts/:id")
       => LET arr == req[r].snap
              id == req[r].id
              body == req[r].body
              matches == {i \in 1..Len(arr) : Get(arr[i], "id") = id}
          IN /\ req'[r].status = 200
             /\ MergedInto(Accounts', arr, id, body)
             /\ IF matches = {}
                THEN /\ req'[r].res = EmptyObject
                     /\ Accounts' = arr
                ELSE /\ \E i \in matches : req'[r].res = Accounts'[i]
                     /\ LET last == CHOOSE i \in matches : \A j \in matches : j <= i
                        IN Overlaid(req'[r].res, arr[last], body)
             /\ ~req[r].stale => MergedInto(Accounts', Accounts, id, body)
             /\ (~req[r].stale /\ ~Has(Accounts, "id", id))
                  => accountsFile' = accountsFile]_vars

\* C11's case: a PUT for "a1" was answered 200 with the account created as
\* a1/k1 carrying the body's secretKey, that merged account is stored, and an
\* account of another id is stored next to it as it was created.
C11_Witness ==
  \E r \in DOMAIN req : \E c1, c2 \in Created :
    /\ req[r].ep = "PUT /api/accounts/:id" /\ req[r].status = 200
    /\ req[r].body = [secretKey |-> "k2"]
    /\ req[c1].body = [id |-> "a1", secretKey |-> "k1"]
    /\ req[c2].body = [id |-> "a2", secretKey |-> "k1"]
    /\ req[r].res = [id |-> "a1", secretKey |-> "k2"]
    /\ req[r].res \in Range(Accounts)
    /\ req[c2].body \in Range(Accounts)
    /\ req[c1].body \notin Range(Accounts)

ProxyEps == {"POST /api/send-email", "POST /api/track-event"}
\* a `from` that is there and is not whitespace only
NonBlank(from) == from \notin {Undefined, "", " "}
\* request r gets the stored array in this step: its read succeeds, or its
\* write of [] to the missing file does; the array is what is then stored
ReadsAccounts(r) ==
  /\ req'[r].ep \in ProxyEps
  /\ req'[r].io > req[r].io
  /\ ~req'[r].ioError
  /\ req'[r].pc # "recovering"

\* C12: a send-email or track-event request whose accountId matches no
\* account of the array it reads is answered 404 and has called no provider;
\* one whose accountId matches makes one provider call in that step and none
\* after it, with the secretKey of the first account of that id in the array
\* as bearer token; the payload of send-email has body equal to the request's
\* content, and has from only when the request's from is non-blank.
C12_OneCallWithAccountKey ==
  [][\A r \in DOMAIN req :
       /\ req[r].pc # "idle" => req'[r].calls <= 1
       /\ req[r].pc = "calling" => req'[r].calls = req[r].calls
       /\ ReadsAccounts(r)
            => LET data == Accounts'
                   body == req'[r].body
                   matches == {i \in 1..Len(data) : Get(data[i], "id") = body.accountId}
               IN IF matches = {}
                  THEN /\ req'[r].pc = "done" /\ req'[r].status = 404
                       /\ req'[r].calls = 0
                  ELSE LET first == CHOOSE i \in matches : \A j \in matches : i <= j
                       IN /\ req'[r].pc = "calling"
                          /\ req'[r].calls = 1
                          /\ req'[r].sent.token = Get(data[first], "secretKey")
                          /\ req'[r].ep = "POST /api/send-email"
                               => /\ req'[r].sent.payload.body = body.content
                                  /\ "from" \in DOMAIN req'[r].sent.payload
                                       => NonBlank(Get(body, "from"))]_vars

\* C13: while a fetchLogs call is in flight isLoading is true; once every
\* call has completed, all of them successfully, the logs on display are
\* those of the fetch issued last, which was for the current account and the
\* current statusFilter; and a response that arrives after the response to a
\* fetch issued later leaves the logs and the pagination of the later one.
C13_LatestFetchShown ==
  /\ [](inflight # {} => isLoading)
  /\ []((inflight = {} /\ issued > 0 /\ lastDone.allOk /\ currentAccount # NoAccount)
         => /\ logs.accountId = currentAccount
            /\ logs.status = statusFilter)
  /\ [][(lastDone' # lastDone /\ lastDone'.n < lastDone.n
          /\ lastDone.outcome = "success")
         => /\ logs' = logs
            /\ pagination' = pagination]_vars

====
